---- MODULE Spec2Model ----
(***************************************************************************)
(* Situation Wall pipeline of centro-de-controle:                          *)
(*   backend/situation_wall_parser.py  (parser, enrichment, orchestrator)  *)
(*   backend/confluence_client.py      (tracker search, batch lookup)      *)
(*   backend/sync_confluence.py        (scheduled sync, clear-then-insert) *)
(*   backend/main.py                   (manual sync, push persistence)     *)
(*                                                                         *)
(* A document (the page's storage XML) is a sequence of tokens: section    *)
(* anchors, table rows (a sequence of cells), jqlQuery parameters.  The    *)
(* regular expressions of the parser are modelled by what they match on    *)
(* that sequence.                                                          *)
(***************************************************************************)
EXTENDS Integers, Sequences, FiniteSets, TLC

\* ------------------------------------------------------------------ values

\* Python None, and a parameter that is absent from a macro.
NONE == "<none>"

\* An issue key "BEESIP-7" is [prefix |-> "BEESIP-", n |-> 7].
Key(prefix, n) == [prefix |-> prefix, n |-> n]
EmptyKey == Key("", 0)
NoKey == Key(NONE, 0)

\* str.startswith on a key.
StartsWith(key, prefix) == key.prefix = prefix

\* f"https://ab-inbev.atlassian.net/browse/{key}"
JiraUrl(key) == [base |-> "https://ab-inbev.atlassian.net/browse/", key |-> key]

\* A jqlQuery value is a sequence of pieces; None is the sequence <<NONE>>.
NoJql == <<NONE>>

\* ------------------------------------------------------------------ markup

Macro(type, key, title) == [type |-> type, key |-> key, title |-> title]

\* A table cell: its macros in order, its emoji shortnames in order, the
\* bracketed tags of the text after the last macro, and the words of its
\* cleaned text.
Cell(macros, emojis, brackets, words, sps) ==
  [macros |-> macros, emojis |-> emojis, brackets |-> brackets,
   words |-> words, sps |-> sps]

EmptyCell == Cell(<<>>, <<>>, <<>>, <<>>, <<>>)

\* Tokens of the document.
Token(kind, name, exact, raw, cells, n) ==
  [kind |-> kind, name |-> name, exact |-> exact, raw |-> raw, cells |-> cells, n |-> n]
Anchor(name, exact) == Token("anchor", name, exact, <<>>, <<>>, 0)
Row(cells) == Token("row", "", TRUE, <<>>, cells, 0)
JqlParam(raw) == Token("jql", "", TRUE, raw, <<>>, 0)
\* "Sprint <n>: <start> - <end>" in the text; name holds the two dates.
SprintLine(n, dates) == Token("sprint", dates, TRUE, <<>>, <<>>, n)
\* "Release: <date>"
ReleaseNote(date) == Token("release", date, TRUE, <<>>, <<>>, 0)
\* An emoticon with shortname arrow_right.
Arrow == Token("arrow", "arrow_right", TRUE, <<>>, <<>>, 0)
\* n characters of other markup.
Pad(n) == Token("pad", "", TRUE, <<>>, <<>>, n)

A_PRIO == "EXECUTION PRIORITIES"
A_E2E == "END-TO-END"
A_PLAN == "END-TO-END EXECUTION PLAN"
A_RISKS == "RISKS"
A_BUGS == "BUGS"

\* Does the token's text contain the marker?  ci: case-insensitive search.
\* "END-TO-END EXECUTION PLAN" contains "END-TO-END".
HasText(tok, marker, ci) ==
  /\ tok.kind = "anchor"
  /\ tok.exact \/ ci
  /\ \/ tok.name = marker
     \/ marker = A_E2E /\ tok.name = A_PLAN

\* Index of the first token at or after position from that satisfies the test,
\* 0 when there is none (re.search scans left to right).
FirstFrom(doc, from, Test(_)) ==
  LET hits == {i \in from..Len(doc) : Test(doc[i])}
  IN IF hits = {} THEN 0 ELSE CHOOSE i \in hits : \A j \in hits : i <= j

Slice(s, a, b) == IF a > b THEN <<>> ELSE SubSeq(s, a, b)

Filter(s, Test(_)) == SelectSeq(s, Test)

\* ------------------------------------------------------------------ scanner

\* _extract_macros then [m for m in macros if m["type"] == t]
MacrosOfType(cell, t) == Filter(cell.macros, LAMBDA m : m.type = t)

\* params.get("key", "")
ParamKey(m) == IF m.key = NoKey THEN EmptyKey ELSE m.key

\* params.get("title", default)
ParamTitle(m, default) == IF m.title = NONE THEN default ELSE m.title

\* str.upper on the team labels of the model.
Upper(s) ==
  CASE s = "catalog" -> "CATALOG"
    [] s = "Content" -> "CONTENT"
    [] s = "unknown" -> "UNKNOWN"
    [] s = "m" -> "M"
    [] s = "xxl" -> "XXL"
    [] OTHER -> s

EMOJI_PRIORITY_MAP ==
  [e \in {":high:", ":medium:", ":low:", ":block_1:", ":block_2:", ":critical:"} |->
     CASE e = ":high:" -> "High"
       [] e = ":medium:" -> "Medium"
       [] e = ":low:" -> "Low"
       [] e = ":block_1:" -> "Block 1"
       [] e = ":block_2:" -> "Block 2"
       [] e = ":critical:" -> "Critical"]

VALID_SIZES == {"XXS", "XS", "S", "M", "L", "XL", "XXL"}

\* A conversion that looks at the first marker only.
EmojiToPriorityHead(emojis) ==
  IF emojis # <<>> /\ Head(emojis) \in DOMAIN EMOJI_PRIORITY_MAP
  THEN EMOJI_PRIORITY_MAP[Head(emojis)]
  ELSE "Medium"

\* for emoji in emojis: the first that is a key of the table, else "Medium"
RECURSIVE EmojiToPriority(_)
EmojiToPriority(emojis) ==
  IF emojis = <<>> THEN "Medium"
  ELSE IF Head(emojis) \in DOMAIN EMOJI_PRIORITY_MAP
       THEN EMOJI_PRIORITY_MAP[Head(emojis)]
       ELSE EmojiToPriority(Tail(emojis))

\* An extraction that looks at the leading token only.
ExtractSizeLeadingOnly(words) ==
  IF words # <<>> /\ Upper(Head(words)) \in VALID_SIZES THEN Upper(Head(words)) ELSE ""

\* An extraction that returns the last size token of the text.
RECURSIVE ExtractSizeLast(_)
ExtractSizeLast(words) ==
  IF words = <<>> THEN ""
  ELSE IF Upper(words[Len(words)]) \in VALID_SIZES THEN Upper(words[Len(words)])
       ELSE ExtractSizeLast(SubSeq(words, 1, Len(words) - 1))

\* for word in words: clean = word.strip().upper(); the first in VALID_SIZES
RECURSIVE ExtractSizeFromText(_)
ExtractSizeFromText(words) ==
  IF words = <<>> THEN ""
  ELSE IF Upper(Head(words)) \in VALID_SIZES THEN Upper(Head(words))
       ELSE ExtractSizeFromText(Tail(words))

\* ------------------------------------------------------------------ section locator

NotFound == [found |-> FALSE, toks |-> <<>>]

\* One re.search(start + '(.*?)' + end): the first start and the first end
\* after it.
SearchSection(storage, start, end, ci) ==
  LET i == FirstFrom(storage, 1, LAMBDA t : HasText(t, start, ci))
      j == IF i = 0 THEN 0
           ELSE FirstFrom(storage, i + 1, LAMBDA t : HasText(t, end, ci))
  IN IF i = 0 \/ j = 0 THEN NotFound
     ELSE [found |-> TRUE, toks |-> Slice(storage, i + 1, j - 1)]

\* A locator without the case-insensitive second search.
FindSectionCaseSensitiveOnly(storage, start, end) ==
  SearchSection(storage, start, end, FALSE)

\* _find_section: case-sensitive, then case-insensitive.
FindSection(storage, start, end) ==
  LET cs == SearchSection(storage, start, end, FALSE)
  IN IF cs.found THEN cs ELSE SearchSection(storage, start, end, TRUE)

\* ROW_PATTERN.findall
RowsOf(toks) == Filter(toks, LAMBDA t : t.kind = "row")

\* ------------------------------------------------------------------ initiatives

\* The key a row offers as an initiative, EmptyKey when the row is skipped
\* before the key is read.
InitRowKey(row) ==
  IF row.cells = <<>> THEN EmptyKey
  ELSE LET jira == MacrosOfType(row.cells[1], "jira")
       IN IF jira = <<>> THEN EmptyKey ELSE ParamKey(jira[1])

\* A check that rejects only the empty key.
InitKeyRejectedOnlyEmpty(key) == key = EmptyKey

\* not beesip_id or not beesip_id.startswith("BEESIP-")
InitKeyRejected(key) == key = EmptyKey \/ ~StartsWith(key, "BEESIP-")

\* A parser that keeps no seen_ids.
SeenBeforeNever(key, seen) == FALSE
\* if beesip_id in seen_ids: continue
SeenBefore(key, seen) == key \in seen

\* A record whose team is the title as written.
InitiativeOfRowTitleAsWritten(row) ==
  LET cell == row.cells[1]
      key == InitRowKey(row)
      status == MacrosOfType(cell, "status")
      team == IF status = <<>> THEN "UNKNOWN" ELSE ParamTitle(status[1], "UNKNOWN")
  IN [beesip_id |-> key,
      title |-> "",
      status |-> "",
      priority |-> EmojiToPriority(cell.emojis),
      team |-> team,
      category |-> IF cell.brackets = <<>> THEN "" ELSE cell.brackets[1],
      kickoff_date |-> NONE,
      zone_approval |-> NONE,
      jira_url |-> JiraUrl(key)]

\* Initiative(...) as parse_initiatives builds it from the first cell of a row.
InitiativeOfRow(row) ==
  LET cell == row.cells[1]
      key == InitRowKey(row)
      status == MacrosOfType(cell, "status")
      team == IF status = <<>> THEN "UNKNOWN" ELSE ParamTitle(status[1], "UNKNOWN")
  IN [beesip_id |-> key,
      title |-> "",
      status |-> "",
      priority |-> EmojiToPriority(cell.emojis),
      team |-> Upper(team),
      category |-> IF cell.brackets = <<>> THEN "" ELSE cell.brackets[1],
      kickoff_date |-> NONE,
      zone_approval |-> NONE,
      jira_url |-> JiraUrl(key)]

\* seen_ids when the loop reaches row i: the keys of the rows kept before it.
InitSeenAt(rows, i) ==
  {InitRowKey(rows[j]) : j \in {j \in 1..(i - 1) : ~InitKeyRejected(InitRowKey(rows[j]))}}

Indices(n) == [i \in 1..n |-> i]

\* The loop over the rows: a row is kept when its key is accepted and not yet
\* in seen_ids; the records are appended in row order.
InitiativesOfRows(rows) ==
  LET kept == Filter(Indices(Len(rows)),
                     LAMBDA i : /\ ~InitKeyRejected(InitRowKey(rows[i]))
                                /\ ~SeenBefore(InitRowKey(rows[i]), InitSeenAt(rows, i)))
  IN [k \in 1..Len(kept) |-> InitiativeOfRow(rows[kept[k]])]

ParseInitiatives(storage) ==
  LET section == FindSection(storage, A_PRIO, A_E2E)
  IN IF ~section.found \/ section.toks = <<>> THEN <<>>
     ELSE InitiativesOfRows(RowsOf(section.toks))

\* ------------------------------------------------------------------ epics

\* re.search(r'END-TO-END EXECUTION PLAN(.*)'): everything after the first
\* occurrence, case-sensitive.
PlanSection(storage) ==
  LET i == FirstFrom(storage, 1, LAMBDA t : HasText(t, A_PLAN, FALSE))
  IN IF i = 0 THEN NotFound
     ELSE [found |-> TRUE, toks |-> Slice(storage, i + 1, Len(storage))]

EpicRowKey(row) ==
  IF Len(row.cells) < 3 THEN EmptyKey
  ELSE LET jira == MacrosOfType(row.cells[3], "jira")
       IN IF jira = <<>> THEN EmptyKey ELSE ParamKey(jira[1])

EpicKeyRejected(key) == key = EmptyKey \/ ~StartsWith(key, "BEESCAD-")

\* Cell 1: the initiative the epic belongs to.
EpicInitiativeKey(row) ==
  LET jira == MacrosOfType(row.cells[2], "jira")
  IN IF jira = <<>> THEN NoKey
     ELSE IF StartsWith(ParamKey(jira[1]), "BEESIP-") THEN ParamKey(jira[1])
     ELSE NoKey

\* A scan over every cell of the row.
EpicSprintAnyCell(row) ==
  LET i == FirstFrom(row.cells, 1, LAMBDA c : c.sps # <<>>)
  IN IF i = 0 THEN NONE ELSE row.cells[i].sps[1]

\* for cell_idx in range(3, min(11, len(cells))): the first cell with SP-<digits>
EpicSprint(row) ==
  LET last == IF Len(row.cells) < 11 THEN Len(row.cells) ELSE 11
      i == FirstFrom(row.cells, 4, LAMBDA c : c.sps # <<>>)
  IN IF i = 0 \/ i > last THEN NONE ELSE row.cells[i].sps[1]

\* Comments taken from the twelfth cell of the row, cells[11].
EpicCommentsTwelfth(row) ==
  IF Len(row.cells) > 11 THEN row.cells[12].words ELSE <<>>

\* comments = clean text of cells[12] when len(cells) > 12
EpicComments(row) ==
  IF Len(row.cells) > 12 THEN row.cells[13].words ELSE <<>>

EpicOfRow(row) ==
  LET key == EpicRowKey(row)
  IN [beescad_id |-> key,
      initiative_beesip |-> EpicInitiativeKey(row),
      title |-> "",
      status |-> "",
      size |-> ExtractSizeFromText(row.cells[3].words),
      sprint |-> EpicSprint(row),
      milestones |-> EpicComments(row),
      jira_url |-> JiraUrl(key)]

EpicSeenAt(rows, i) ==
  {EpicRowKey(rows[j]) : j \in {j \in 1..(i - 1) : ~EpicKeyRejected(EpicRowKey(rows[j]))}}

EpicsOfRows(rows) ==
  LET kept == Filter(Indices(Len(rows)),
                     LAMBDA i : /\ ~EpicKeyRejected(EpicRowKey(rows[i]))
                                /\ ~SeenBefore(EpicRowKey(rows[i]), EpicSeenAt(rows, i)))
  IN [k \in 1..Len(kept) |-> EpicOfRow(rows[kept[k]])]

ParseEpics(storage) ==
  LET plan == PlanSection(storage)
  IN IF ~plan.found THEN <<>> ELSE EpicsOfRows(RowsOf(plan.toks))

\* ------------------------------------------------------------------ sprints

WindowChars == 500

\* Characters a token takes in the storage text.
Width(tok) ==
  CASE tok.kind = "pad" -> tok.n
    [] tok.kind = "arrow" -> 11
    [] tok.kind = "sprint" -> 36
    [] OTHER -> 20

RECURSIVE Offset(_, _)
Offset(storage, i) ==
  IF i <= 1 THEN 0 ELSE Offset(storage, i - 1) + Width(storage[i - 1])

\* len(f"Sprint {num}")
MentionLen(num) == IF num < 10 THEN 8 ELSE IF num < 100 THEN 9 ELSE 10

\* The text "Sprint <num>" is found where a sprint whose number starts with the
\* digits of num is written.
DigitsPrefix(num, m) == num = m \/ num = m \div 10 \/ num = m \div 100

Mentions(tok, num) == tok.kind = "sprint" /\ DigitsPrefix(num, tok.n)

\* rf'Sprint {num}.*?Release[:\s]+(<date>)' on the cleaned text
SprintRelease(storage, num) ==
  LET a == FirstFrom(storage, 1, LAMBDA t : Mentions(t, num))
      r == IF a = 0 THEN 0
           ELSE FirstFrom(storage, a + 1, LAMBDA t : t.kind = "release")
  IN IF r = 0 THEN NONE ELSE storage[r].name

\* The first arrow_right, and "Sprint <num>" inside the 500 characters from it.
SprintIsCurrent(storage, num) ==
  LET a == FirstFrom(storage, 1, LAMBDA t : t.kind = "arrow")
  IN /\ a # 0
     /\ \E j \in a..Len(storage) :
          /\ Mentions(storage[j], num)
          /\ Offset(storage, j) + MentionLen(num)
               <= Offset(storage, a) + WindowChars

SprintOfLine(storage, tok) ==
  [name |-> <<"Sprint", tok.n>>,
   number |-> tok.n,
   dates |-> tok.name,
   release_date |-> SprintRelease(storage, tok.n),
   is_current |-> SprintIsCurrent(storage, tok.n)]

RECURSIVE SprintsOfLines(_, _)
SprintsOfLines(storage, lines) ==
  IF lines = <<>> THEN <<>>
  ELSE <<SprintOfLine(storage, Head(lines))>> \o SprintsOfLines(storage, Tail(lines))

ParseSprints(storage) ==
  SprintsOfLines(storage, Filter(storage, LAMBDA t : t.kind = "sprint"))

\* ------------------------------------------------------------------ dynamic sections

\* html.unescape on one piece of a query string.
Unescape(piece) ==
  CASE piece = "&amp;" -> "&"
    [] piece = "&quot;" -> "\""
    [] OTHER -> piece

RECURSIVE LStrip(_)
LStrip(q) == IF q # <<>> /\ Head(q) = " " THEN LStrip(Tail(q)) ELSE q

RECURSIVE RStrip(_)
RStrip(q) ==
  IF q # <<>> /\ q[Len(q)] = " " THEN RStrip(SubSeq(q, 1, Len(q) - 1)) ELSE q

\* html.unescape(value).strip()
DecodeJql(raw) == RStrip(LStrip([i \in 1..Len(raw) |-> Unescape(raw[i])]))

\* re.search(marker + r'.*?<ac:parameter ac:name="jqlQuery">([^<]+)</ac:parameter>',
\*           storage, DOTALL | IGNORECASE): the first non-empty jqlQuery parameter
\* after the first occurrence of the marker.
SearchJql(storage, marker) ==
  LET i == FirstFrom(storage, 1, LAMBDA t : HasText(t, marker, TRUE))
      j == IF i = 0 THEN 0
           ELSE FirstFrom(storage, i + 1, LAMBDA t : t.kind = "jql" /\ t.raw # <<>>)
  IN IF j = 0 THEN NoJql ELSE DecodeJql(storage[j].raw)

\* A parser instance: the storage text and the two cached queries.
NewParser(storage) ==
  [storage |-> storage, jql_risks |-> NoJql, jql_bugs |-> NoJql]

\* The risks query searched from the first of either section's anchors.
ExtractRisksJqlAnySection(p) ==
  IF p.jql_risks # NoJql THEN p.jql_risks
  ELSE LET i == FirstFrom(p.storage, 1,
                          LAMBDA t : HasText(t, A_RISKS, TRUE) \/ HasText(t, A_BUGS, TRUE))
           j == IF i = 0 THEN 0
                ELSE FirstFrom(p.storage, i + 1, LAMBDA t : t.kind = "jql" /\ t.raw # <<>>)
       IN IF j = 0 THEN NoJql ELSE DecodeJql(p.storage[j].raw)
ExtractRisksJql(p) ==
  IF p.jql_risks # NoJql THEN p.jql_risks ELSE SearchJql(p.storage, A_RISKS)

ExtractBugsJql(p) ==
  IF p.jql_bugs # NoJql THEN p.jql_bugs ELSE SearchJql(p.storage, A_BUGS)

\* ------------------------------------------------------------------ parse_all

NoEnrichment == [present |-> FALSE, jira_issues_fetched |-> 0, items_enriched |-> 0]

\* A parse that gives up on the whole page when the priorities section is not
\* found.
ParseAllBlocking(p) ==
  IF ~FindSection(p.storage, A_PRIO, A_E2E).found
  THEN [sprints |-> <<>>, initiatives |-> <<>>, epics |-> <<>>, risks |-> <<>>,
        bugs |-> <<>>, risks_jql |-> NoJql, bugs_jql |-> NoJql,
        enrichment |-> NoEnrichment]
  ELSE [sprints |-> ParseSprints(p.storage),
        initiatives |-> ParseInitiatives(p.storage),
        epics |-> ParseEpics(p.storage),
        risks |-> <<>>,
        bugs |-> <<>>,
        risks_jql |-> ExtractRisksJql(p),
        bugs_jql |-> ExtractBugsJql(p),
        enrichment |-> NoEnrichment]

\* The result of parse_all (parsed_at, a timestamp, is left out).
ParseAll(p) ==
  [sprints |-> ParseSprints(p.storage),
   initiatives |-> ParseInitiatives(p.storage),
   epics |-> ParseEpics(p.storage),
   risks |-> <<>>,
   bugs |-> <<>>,
   risks_jql |-> ExtractRisksJql(p),
   bugs_jql |-> ExtractBugsJql(p),
   enrichment |-> NoEnrichment]

\* A parse that keeps only the plan section in the instance.
StorageAfterParseTruncated(p) ==
  LET plan == PlanSection(p.storage)
  IN IF plan.found THEN plan.toks ELSE p.storage
\* The storage a parse leaves in the instance: parsing assigns only locals.
StorageAfterParse(p) == p.storage

\* The instance after parse_all: the extracted queries are cached.
ParserAfterParseAll(p) ==
  [storage |-> StorageAfterParse(p),
   jql_risks |-> ExtractRisksJql(p),
   jql_bugs |-> ExtractBugsJql(p)]

\* ------------------------------------------------------------------ tracker

\* A row of a search response.  fields is "present", "absent" (the row has no
\* field bag) or "null"; a field that is NONE is absent from the bag.
Issue(key, fields, summary, status, priority, assignee, gut, team) ==
  [key |-> key, fields |-> fields, summary |-> summary, status |-> status,
   priority |-> priority, assignee |-> assignee, gut |-> gut, team |-> team]

\* customfield_13715 as the tracker sends it: absent, a number, a string of
\* digits, or any other string.
Gut(kind, v) == [kind |-> kind, v |-> v]

\* The response of the tracker to one search: status "error" is any failure of
\* the request (network, non-success status, undecodable body); "null_issues"
\* is a body whose "issues" member is null.
Response(status, issues) == [status |-> status, issues |-> issues]

\* A search without the try/except: a failed request raises.
SearchJiraUncaught(resp) ==
  [is_none |-> resp.status = "null_issues", raised |-> resp.status = "error",
   rows |-> IF resp.status = "ok" THEN resp.issues ELSE <<>>]
\* search_jira: what the caller gets.  is_none: the value is None, not a list.
SearchJira(resp) ==
  [is_none |-> resp.status = "null_issues", raised |-> FALSE,
   rows |-> IF resp.status = "ok" THEN resp.issues ELSE <<>>]

\* issue.get("key", "")
IssueKey(issue) == IF issue.key = NoKey THEN EmptyKey ELSE issue.key

\* fields.get(name, "") and obj.get("name", "") if obj else ""
FieldOr(issue, v, default) ==
  IF issue.fields = "absent" \/ v = NONE THEN default ELSE v

\* fields.get(...) on a null field bag raises AttributeError.
FieldsRaise(issue) == issue.fields = "null"

\* int(gut_field) if gut_field else 0; int() of a non-numeric string raises.
GutRaises(issue) == issue.fields = "present" /\ issue.gut.kind = "text"

GutScore(issue) ==
  IF issue.fields = "absent" \/ issue.gut.kind = "absent" THEN 0 ELSE issue.gut.v

BatchSize == 50

Min(a, b) == IF a < b THEN a ELSE b

\* A slice that ends one key early.
ChunkAtShort(keys, i) == Slice(keys, i + 1, Min(i + BatchSize - 1, Len(keys)))
\* keys[i:i + batch_size], i counted from 0
ChunkAt(keys, i) == Slice(keys, i + 1, Min(i + BatchSize, Len(keys)))

\* A loop that returns after its first turn.
HasChunkAfterNever(keys, i) == FALSE
\* range(0, len(keys), batch_size) has a next element after i
HasChunkAfter(keys, i) == i + BatchSize < Len(keys)

Put(f, k, v) == [x \in DOMAIN f \cup {k} |-> IF x = k THEN v ELSE f[x]]

EmptyMap == [x \in {} |-> 0]

\* The entry get_issues_batch stores for an issue.
BatchEntry(issue) ==
  [summary |-> FieldOr(issue, issue.summary, ""),
   status |-> FieldOr(issue, issue.status, ""),
   priority |-> FieldOr(issue, issue.priority, ""),
   assignee |-> FieldOr(issue, issue.assignee, ""),
   issuetype |-> ""]

\* The loop over the issues of one chunk: result[key] = {...} for each issue in
\* turn (a later issue with the same key overwrites), up to the first issue
\* that raises.
MergeIssues(issues, result) ==
  LET r == FirstFrom(issues, 1, LAMBDA x : FieldsRaise(x))
      n == IF r = 0 THEN Len(issues) ELSE r - 1
      ks == {IssueKey(issues[i]) : i \in 1..n}
      last(k) == CHOOSE i \in 1..n :
                   /\ IssueKey(issues[i]) = k
                   /\ \A j \in (i + 1)..n : IssueKey(issues[j]) # k
  IN [result |-> [k \in DOMAIN result \cup ks |->
                    IF k \in ks THEN BatchEntry(issues[last(k)]) ELSE result[k]],
      raised |-> r # 0]

\* ------------------------------------------------------------------ merge

\* jira.get("summary", init["title"]) for a key in the mapping
EnrichedTitle(rec, jira) ==
  IF "summary" \in DOMAIN jira THEN jira.summary ELSE rec.title

EnrichedStatus(rec, jira) ==
  IF "status" \in DOMAIN jira THEN jira.status ELSE rec.status

\* Enrichment that also takes the tracker's priority.
EnrichInitiativeWithPriority(init, jira_issues) ==
  IF init.beesip_id \in DOMAIN jira_issues
  THEN [init EXCEPT !.title = EnrichedTitle(init, jira_issues[init.beesip_id]),
                    !.status = EnrichedStatus(init, jira_issues[init.beesip_id]),
                    !.priority = jira_issues[init.beesip_id].priority]
  ELSE init
EnrichInitiative(init, jira_issues) ==
  IF init.beesip_id \in DOMAIN jira_issues
  THEN [init EXCEPT !.title = EnrichedTitle(init, jira_issues[init.beesip_id]),
                    !.status = EnrichedStatus(init, jira_issues[init.beesip_id])]
  ELSE init

EnrichEpic(epic, jira_issues) ==
  IF epic.beescad_id \in DOMAIN jira_issues
  THEN [epic EXCEPT !.title = EnrichedTitle(epic, jira_issues[epic.beescad_id]),
                    !.status = EnrichedStatus(epic, jira_issues[epic.beescad_id])]
  ELSE epic

\* enriched_count
EnrichedCount(data, jira_issues) ==
  Cardinality({i \in 1..Len(data.initiatives) :
                 data.initiatives[i].beesip_id \in DOMAIN jira_issues})
  + Cardinality({i \in 1..Len(data.epics) :
                   data.epics[i].beescad_id \in DOMAIN jira_issues})

\* Enrichment that keeps only the records it found in the mapping.
EnrichWithJiraDataDropping(data, jira_issues) ==
  [data EXCEPT
     !.initiatives = Filter(data.initiatives, LAMBDA r : r.beesip_id \in DOMAIN jira_issues),
     !.epics = Filter(data.epics, LAMBDA r : r.beescad_id \in DOMAIN jira_issues),
     !.enrichment = [present |-> TRUE,
                     jira_issues_fetched |-> Cardinality(DOMAIN jira_issues),
                     items_enriched |-> EnrichedCount(data, jira_issues)]]
EnrichWithJiraData(data, jira_issues) ==
  [data EXCEPT
     !.initiatives = [i \in 1..Len(data.initiatives) |->
                        EnrichInitiative(data.initiatives[i], jira_issues)],
     !.epics = [i \in 1..Len(data.epics) |->
                  EnrichEpic(data.epics[i], jira_issues)],
     !.enrichment = [present |-> TRUE,
                     jira_issues_fetched |-> Cardinality(DOMAIN jira_issues),
                     items_enriched |-> EnrichedCount(data, jira_issues)]]

\* all_keys: the initiative keys, then the epic keys
AllKeys(data) ==
  [i \in 1..Len(data.initiatives) |-> data.initiatives[i].beesip_id]
  \o [i \in 1..Len(data.epics) |-> data.epics[i].beescad_id]

\* ------------------------------------------------------------------ risks and bugs

RiskOfIssue(issue) ==
  [beescad_id |-> IssueKey(issue),
   title |-> FieldOr(issue, issue.summary, ""),
   assignee |-> FieldOr(issue, issue.assignee, ""),
   status |-> FieldOr(issue, issue.status, ""),
   priority |-> FieldOr(issue, issue.priority, ""),
   gut_score |-> GutScore(issue),
   jira_url |-> JiraUrl(IssueKey(issue))]

BugOfIssue(issue) ==
  [beescad_id |-> IssueKey(issue),
   title |-> FieldOr(issue, issue.summary, ""),
   priority |-> FieldOr(issue, issue.priority, ""),
   status |-> FieldOr(issue, issue.status, ""),
   team |-> FieldOr(issue, issue.team, ""),
   jira_url |-> JiraUrl(IssueKey(issue))]

\* A loop that passes over a row whose key it has already appended.
RECURSIVE BuildRisksOncePerKey(_, _)
BuildRisksOncePerKey(issues, acc) ==
  IF issues = <<>> THEN [rows |-> acc, raised |-> FALSE]
  ELSE IF FieldsRaise(Head(issues)) \/ GutRaises(Head(issues))
       THEN [rows |-> acc, raised |-> TRUE]
       ELSE IF \E i \in DOMAIN acc : acc[i].beescad_id = IssueKey(Head(issues))
            THEN BuildRisksOncePerKey(Tail(issues), acc)
            ELSE BuildRisksOncePerKey(Tail(issues), Append(acc, RiskOfIssue(Head(issues))))

\* for issue in risk_issues: data["risks"].append(...); stops where a row raises.
RECURSIVE BuildRisks(_, _)
BuildRisks(issues, acc) ==
  IF issues = <<>> THEN [rows |-> acc, raised |-> FALSE]
  ELSE IF FieldsRaise(Head(issues)) \/ GutRaises(Head(issues))
       THEN [rows |-> acc, raised |-> TRUE]
       ELSE BuildRisks(Tail(issues), Append(acc, RiskOfIssue(Head(issues))))

RECURSIVE BuildBugs(_, _)
BuildBugs(issues, acc) ==
  IF issues = <<>> THEN [rows |-> acc, raised |-> FALSE]
  ELSE IF FieldsRaise(Head(issues))
       THEN [rows |-> acc, raised |-> TRUE]
       ELSE BuildBugs(Tail(issues), Append(acc, BugOfIssue(Head(issues))))

\* if risks_jql: a query that is None or empty is not executed
Truthy(jql) == jql # NoJql /\ jql # <<>>

\* ------------------------------------------------------------------ inputs

\* Bounds of the model.
MaxDocLen == 4
MaxInits == 1
MaxEpics == 1
MaxKeys == 101

\* A priorities row for initiative i, and a plan row for epic i.
InitRowN(i) ==
  Row(<<Cell(<<Macro("status", NoKey, "catalog"), Macro("jira", Key("BEESIP-", i), NONE)>>,
             <<":high:">>, <<"Delivery">>, <<>>, <<>>)>>)

EpicRowN(i) ==
  Row(<<EmptyCell,
        Cell(<<Macro("jira", Key("BEESIP-", 1), NONE)>>, <<>>, <<>>, <<>>, <<>>),
        Cell(<<Macro("jira", Key("BEESCAD-", i), NONE)>>, <<>>, <<>>, <<"M">>, <<>>),
        Cell(<<>>, <<>>, <<>>, <<>>, <<"185">>)>>)

RiskQuery == <<"project", " ", "&amp;", "risk", " ">>
BugQuery == <<"bugs">>

\* A page with ni initiatives, ne epics, a sprint line, and the two query
\* sections (each with or without its jqlQuery parameter).
PipeDoc(ni, ne, rj, bj) ==
  <<SprintLine(185, "January 26 - February 06"), Anchor(A_PRIO, TRUE)>>
  \o [i \in 1..ni |-> InitRowN(i)]
  \o <<Anchor(A_PLAN, TRUE)>>
  \o [i \in 1..ne |-> EpicRowN(i)]
  \o <<Anchor(A_RISKS, TRUE)>>
  \o (IF rj THEN <<JqlParam(RiskQuery)>> ELSE <<>>)
  \o <<Anchor(A_BUGS, TRUE)>>
  \o (IF bj THEN <<JqlParam(BugQuery)>> ELSE <<>>)

\* Pages of the pipeline: a few rows, or enough rows for a second chunk.
PipeDocs ==
  {PipeDoc(ni, ne, rj, bj) :
     ni \in (0..MaxInits) \cup {BatchSize + MaxInits}, ne \in 0..MaxEpics,
     rj \in BOOLEAN, bj \in BOOLEAN}

\* What the tracker answers to the query of one chunk.
Titled(key, summary) ==
  Issue(key, "present", summary, "Open", "Highest", "Ann", Gut("absent", 0), NONE)

BatchResponse(kind, batch) ==
  CASE kind = "error" -> Response("error", <<>>)
    [] kind = "empty" -> Response("ok", <<>>)
    [] kind = "all" ->
         Response("ok", [i \in 1..Len(batch) |-> Titled(batch[i], "Revamp pricing")])
    [] kind = "untitled" -> Response("ok", <<Titled(batch[1], "")>>)
    [] kind = "null_fields" ->
         Response("ok", <<Titled(batch[1], "Revamp pricing"),
                          Issue(batch[Len(batch)], "null", NONE, NONE, NONE, NONE,
                                Gut("absent", 0), NONE)>>)

BatchKinds == {"error", "empty", "all", "untitled", "null_fields"}

\* What the tracker answers to the risks or the bugs query.
RiskIssue(n, gut) ==
  Issue(Key("BEESCAD-", 900 + n), "present", "Outage", "Open", "High", "Ann", gut, "CATALOG")

QueryResponse(kind) ==
  CASE kind = "error" -> Response("error", <<>>)
    [] kind = "two" ->
         Response("ok", <<RiskIssue(1, Gut("number", 7)), RiskIssue(2, Gut("digits", 12))>>)
    [] kind = "dup" ->
         Response("ok", <<RiskIssue(1, Gut("number", 7)), RiskIssue(1, Gut("absent", 0))>>)
    [] kind = "bare" ->
         Response("ok", <<Issue(NoKey, "absent", NONE, NONE, NONE, NONE,
                                Gut("absent", 0), NONE)>>)
    [] kind = "bad_gut" ->
         Response("ok", <<RiskIssue(1, Gut("number", 7)), RiskIssue(2, Gut("text", 0))>>)
    [] kind = "null_fields" ->
         Response("ok", <<RiskIssue(1, Gut("number", 7)),
                          Issue(Key("BEESCAD-", 902), "null", NONE, NONE, NONE, NONE,
                                Gut("absent", 0), NONE)>>)
    [] kind = "null_issues" -> Response("null_issues", <<>>)

QueryKinds == {"error", "two", "dup", "bare", "bad_gut", "null_fields", "null_issues"}

\* ------------------------------------------------------------------ state

VARIABLES
  pc,        \* where the running handler is
  handler,   \* the entry point that is running
  storage,   \* the page as the wiki holds it
  fetched,   \* "no", "ok" or "failed": the document fetch of this run
  parser,    \* the SituationWallParser instance
  data,      \* the result being assembled (the last result of parse_all)
  first,     \* the result of the parse before the last one
  removed,   \* the anchor taken out of the page for the last parse, "" if none
  keys,      \* all_keys
  bi,        \* i of the batch loop
  jira,      \* result of get_issues_batch so far
  calls,     \* the searches sent to the tracker, in order, and their answers
  outcome,   \* how the handler ended
  db,        \* the committed rows of the five confluence_* tables
  status,    \* the rows of confluence_sync_status, by id
  sync_id,   \* cursor.lastrowid of this run's status row, 0 if it has none
  runs       \* the invocations so far

vars ==
  <<pc, handler, storage, fetched, parser, data, first, removed, keys, bi, jira,
    calls, outcome, db, status, sync_id, runs>>

\* What a stage of the pipeline leaves alone in the database.
store == <<db, sync_id, runs>>

EmptyData ==
  [sprints |-> <<>>, initiatives |-> <<>>, epics |-> <<>>, risks |-> <<>>,
   bugs |-> <<>>, risks_jql |-> NoJql, bugs_jql |-> NoJql,
   enrichment |-> NoEnrichment]

EmptyDb == [sprints |-> {}, initiatives |-> {}, epics |-> {}, risks |-> {}, bugs |-> {}]

Call(api, batch, jql, answer) ==
  [api |-> api, keys |-> batch, jql |-> jql, answer |-> answer]

\* The handler whose tracker stages run inside their own try/except.
Contained == handler = "sync_confluence_data"

\* The handlers that keep a row of confluence_sync_status, and its sync_type.
SyncType(h) ==
  CASE h = "sync_confluence_data" -> "scheduled"
    [] h = "trigger_confluence_sync" -> "manual"
    [] OTHER -> ""

InitRun(h, doc, at) ==
  /\ pc = at
  /\ handler = h
  /\ storage = doc
  /\ fetched = "no"
  /\ parser = NewParser(doc)
  /\ data = EmptyData
  /\ first = EmptyData
  /\ removed = ""
  /\ bi = 0
  /\ jira = EmptyMap
  /\ calls = <<>>
  /\ outcome = "running"
  /\ db = EmptyDb
  /\ status = <<>>
  /\ sync_id = 0
  /\ runs = 0

\* Nothing has been invoked and the tables are empty.
Init == InitRun("", <<>>, "idle") /\ keys = <<>>

\* A handler is invoked: the handlers with a status row insert it as 'running'
\* and commit before anything else.
Invoke(handlers, docs, max) ==
  /\ pc \in {"idle", "done"}
  /\ runs < max
  /\ \E h \in handlers, doc \in docs :
       /\ handler' = h
       /\ storage' = doc
       /\ parser' = NewParser(doc)
       /\ status' = IF SyncType(h) = "" THEN status
                    ELSE Append(status, [sync_type |-> SyncType(h), status |-> "running"])
       /\ sync_id' = IF SyncType(h) = "" THEN 0 ELSE Len(status) + 1
  /\ pc' = "fetch"
  /\ fetched' = "no"
  /\ data' = EmptyData
  /\ first' = EmptyData
  /\ removed' = ""
  /\ keys' = <<>>
  /\ bi' = 0
  /\ jira' = EmptyMap
  /\ calls' = <<>>
  /\ outcome' = "running"
  /\ runs' = runs + 1
  /\ db' = db

\* What the handler gives its caller when an exception leaves the pipeline.
Failure(h) ==
  CASE h = "sync_confluence_data" -> "False"
    [] h = "trigger_confluence_sync" -> "http_500"
    [] h = "trigger_full_sync" -> "error"
    [] h = "push_work_status" -> "error"
    [] OTHER -> "raised"

\* An except handler that does not write the status.
FailedLeftRunning(rows, id) == rows

\* The except handlers: UPDATE confluence_sync_status SET status = 'failed'.
Failed(rows, id) == IF id = 0 THEN rows ELSE [rows EXCEPT ![id].status = "failed"]

Completed(rows, id) == IF id = 0 THEN rows ELSE [rows EXCEPT ![id].status = "completed"]

\* An exception that is swallowed where it is raised: the run goes on to parse.
RaiseSwallowed ==
  /\ pc' = "parse"
  /\ outcome' = outcome
  /\ status' = status

\* An exception leaves the pipeline.
Raise ==
  /\ pc' = "done"
  /\ outcome' = Failure(handler)
  /\ status' = Failed(status, sync_id)

\* The handler goes on to its next stage.
Goto(stage) ==
  /\ pc' = stage
  /\ outcome' = outcome
  /\ status' = status

\* client.get_situation_wall()
Fetch ==
  /\ pc = "fetch"
  /\ \E ok \in BOOLEAN :
       IF ok THEN Goto("parse") /\ fetched' = "ok"
       ELSE Raise /\ fetched' = "failed"
  /\ UNCHANGED <<handler, storage, parser, data, first, removed, keys, bi, jira, calls>>
  /\ UNCHANGED store

\* parser = SituationWallParser(storage); data = parser.parse_all(); all_keys
Parse ==
  /\ pc = "parse"
  /\ parser' = ParserAfterParseAll(NewParser(storage))
  /\ data' = ParseAll(NewParser(storage))
  /\ keys' = AllKeys(data')
  /\ Goto(IF keys' # <<>> THEN "batch" ELSE "risks")
  /\ UNCHANGED <<handler, storage, fetched, first, removed, bi, jira, calls>>
  /\ UNCHANGED store

\* get_issues_batch with no keys: return {} before any search.
BatchNoKeys ==
  /\ pc = "batch"
  /\ keys = <<>>
  /\ pc' = "done"
  /\ outcome' = "returned"
  /\ UNCHANGED <<handler, storage, fetched, parser, data, first, removed, keys, bi,
                 jira, calls, status>>
  /\ UNCHANGED store

\* One turn of the loop of get_issues_batch: the search for keys[i:i+50] and the
\* loop over its issues; after the last turn the mapping is returned.
BatchChunk(kinds) ==
  /\ pc = "batch"
  /\ keys # <<>>
  /\ \E kind \in kinds :
       LET batch == ChunkAt(keys, bi)
           got == SearchJira(BatchResponse(kind, batch))
           merged == IF got.is_none \/ got.raised
                     THEN [result |-> jira, raised |-> TRUE]
                     ELSE MergeIssues(got.rows, jira)
       IN /\ calls' = Append(calls, Call("batch", batch, <<>>, kind))
          /\ IF merged.raised
             THEN /\ UNCHANGED <<jira, bi>>
                  /\ IF Contained THEN Goto("risks") ELSE Raise
             ELSE /\ jira' = merged.result
                  /\ IF HasChunkAfter(keys, bi)
                     THEN Goto("batch") /\ bi' = bi + BatchSize
                     ELSE /\ bi' = bi
                          /\ status' = status
                          /\ pc' = IF handler = "get_issues_batch" THEN "done" ELSE "enrich"
                          /\ outcome' = IF handler = "get_issues_batch" THEN "returned"
                                        ELSE outcome
  /\ UNCHANGED <<handler, storage, fetched, parser, data, first, removed, keys>>
  /\ UNCHANGED store

\* parser.enrich_with_jira_data(data, jira_issues)
Enrich ==
  /\ pc = "enrich"
  /\ data' = EnrichWithJiraData(data, jira)
  /\ Goto("risks")
  /\ UNCHANGED <<handler, storage, fetched, parser, first, removed, keys, bi, jira,
                 calls>>
  /\ UNCHANGED store

\* The risks stage: the search for risks_jql and the loop that builds the risks.
Risks(kinds) ==
  /\ pc = "risks"
  /\ IF ~Truthy(data.risks_jql)
     THEN Goto("bugs") /\ UNCHANGED <<data, calls>>
     ELSE \E kind \in kinds :
            LET got == SearchJira(QueryResponse(kind))
                built == IF got.is_none \/ got.raised
                         THEN [rows |-> data.risks, raised |-> TRUE]
                         ELSE BuildRisks(got.rows, data.risks)
            IN /\ calls' = Append(calls, Call("risks", <<>>, data.risks_jql, kind))
               /\ data' = [data EXCEPT !.risks = built.rows]
               /\ IF built.raised /\ ~Contained THEN Raise ELSE Goto("bugs")
  /\ UNCHANGED <<handler, storage, fetched, parser, first, removed, keys, bi, jira>>
  /\ UNCHANGED store

\* fetch_and_parse returns its result; the handlers that called it, and
\* sync_confluence_data, go on to write the tables.
Return ==
  IF handler = "fetch_and_parse"
  THEN pc' = "done" /\ outcome' = "returned" /\ status' = status
  ELSE Goto("persist")

\* The bugs stage, and the return of fetch_and_parse.
Bugs(kinds) ==
  /\ pc = "bugs"
  /\ IF ~Truthy(data.bugs_jql)
     THEN Return /\ UNCHANGED <<data, calls>>
     ELSE \E kind \in kinds :
            LET got == SearchJira(QueryResponse(kind))
                built == IF got.is_none \/ got.raised
                         THEN [rows |-> data.bugs, raised |-> TRUE]
                         ELSE BuildBugs(got.rows, data.bugs)
            IN /\ calls' = Append(calls, Call("bugs", <<>>, data.bugs_jql, kind))
               /\ data' = [data EXCEPT !.bugs = built.rows]
               /\ IF built.raised /\ ~Contained THEN Raise ELSE Return
  /\ UNCHANGED <<handler, storage, fetched, parser, first, removed, keys, bi, jira>>
  /\ UNCHANGED store

\* ------------------------------------------------------------------ tables

\* The columns written for an entity; updated_at and the row id are left out.
SprintRow(s) ==
  [sprint_name |-> s.name, sprint_number |-> s.number, dates |-> s.dates,
   release_date |-> s.release_date, is_current |-> s.is_current]

\* _persist_confluence_data does not write zone_approval or milestones.
InitiativeRow(r, full) ==
  [beesip_id |-> r.beesip_id, title |-> r.title, status |-> r.status,
   priority |-> r.priority, team |-> r.team, kickoff_date |-> r.kickoff_date,
   zone_approval |-> IF full THEN r.zone_approval ELSE NONE,
   jira_url |-> r.jira_url]

EpicRow(r, full) ==
  [beescad_id |-> r.beescad_id, initiative_beesip |-> r.initiative_beesip,
   title |-> r.title, status |-> r.status, size |-> r.size, sprint |-> r.sprint,
   milestones |-> IF full THEN r.milestones ELSE <<>>,
   jira_url |-> r.jira_url]

RowsOfRun(d, full) ==
  [sprints |-> [i \in DOMAIN d.sprints |-> SprintRow(d.sprints[i])],
   initiatives |-> [i \in DOMAIN d.initiatives |-> InitiativeRow(d.initiatives[i], full)],
   epics |-> [i \in DOMAIN d.epics |-> EpicRow(d.epics[i], full)],
   risks |-> d.risks,
   bugs |-> d.bugs]

\* The UNIQUE column of each table.
SprintKey(r) == r.sprint_number
InitiativeKey(r) == r.beesip_id
\* beescad_id is also the UNIQUE column of the risks and of the bugs.
EpicKey(r) == r.beescad_id

\* The first row whose key an earlier row of the same run has, 0 if none.
FirstDup(rows, K(_)) ==
  FirstFrom(Indices(Len(rows)), 1,
            LAMBDA i : \E j \in 1..(i - 1) : K(rows[j]) = K(rows[i]))

\* INSERT of the rows in order into the emptied table: the insert of a row
\* whose key is in the table raises IntegrityError and the loop ends there.
InsertRows(rows, K(_)) ==
  LET d == FirstDup(rows, K)
      n == IF d = 0 THEN Len(rows) ELSE d - 1
  IN [table |-> {rows[i] : i \in 1..n}, failed |-> d # 0]

NoInsert == [table |-> {}, failed |-> TRUE]

\* INSERT OR REPLACE of the rows in order: a row takes the place of the row
\* with its key.
ReplaceRows(table, rows, K(_)) ==
  {r \in table : \A i \in DOMAIN rows : K(rows[i]) # K(r)}
  \cup {rows[i] : i \in {i \in DOMAIN rows :
                           \A j \in (i + 1)..Len(rows) : K(rows[j]) # K(rows[i])}}

\* sync_confluence_data: DELETE FROM the five tables, then the INSERTs, table
\* after table; what the connection holds when the loop ends or raises.
DeleteInsert(d) ==
  LET rows == RowsOfRun(d, TRUE)
      s == InsertRows(rows.sprints, SprintKey)
      i == IF s.failed THEN NoInsert ELSE InsertRows(rows.initiatives, InitiativeKey)
      e == IF i.failed THEN NoInsert ELSE InsertRows(rows.epics, EpicKey)
      r == IF e.failed THEN NoInsert ELSE InsertRows(rows.risks, EpicKey)
      b == IF r.failed THEN NoInsert ELSE InsertRows(rows.bugs, EpicKey)
  IN [db |-> [sprints |-> s.table, initiatives |-> i.table, epics |-> e.table,
              risks |-> r.table, bugs |-> b.table],
      failed |-> b.failed]

\* trigger_confluence_sync and _persist_confluence_data: INSERT OR REPLACE only.
InsertOrReplace(old, d, full) ==
  LET rows == RowsOfRun(d, full)
  IN [sprints |-> ReplaceRows(old.sprints, rows.sprints, SprintKey),
      initiatives |-> ReplaceRows(old.initiatives, rows.initiatives, InitiativeKey),
      epics |-> ReplaceRows(old.epics, rows.epics, EpicKey),
      risks |-> ReplaceRows(old.risks, rows.risks, EpicKey),
      bugs |-> ReplaceRows(old.bugs, rows.bugs, EpicKey)]

\* The writes of the handler and its commit. In sync_confluence_data an insert
\* that raises ends in the except handler, whose commit keeps the deletes and
\* the inserts made before it.
Persist ==
  /\ pc = "persist"
  /\ pc' = "done"
  /\ CASE handler = "sync_confluence_data" ->
            LET w == DeleteInsert(data)
            IN /\ db' = w.db
               /\ outcome' = IF w.failed THEN Failure(handler) ELSE "True"
               /\ status' = IF w.failed THEN Failed(status, sync_id)
                            ELSE Completed(status, sync_id)
       [] handler = "trigger_confluence_sync" ->
            /\ db' = InsertOrReplace(db, data, TRUE)
            /\ outcome' = "success"
            /\ status' = Completed(status, sync_id)
       [] OTHER ->
            /\ db' = InsertOrReplace(db, data, FALSE)
            /\ outcome' = "ok"
            /\ status' = status
  /\ UNCHANGED <<handler, storage, fetched, parser, data, first, removed, keys, bi,
                 jira, calls, sync_id, runs>>

\* POST /api/sync/push/work-status: the body goes to _persist_confluence_data.
Push(bodies, max) ==
  /\ pc \in {"idle", "done"}
  /\ runs < max
  /\ \E body \in bodies : data' = body
  /\ handler' = "push_work_status"
  /\ pc' = "persist"
  /\ storage' = <<>>
  /\ parser' = NewParser(<<>>)
  /\ fetched' = "no"
  /\ first' = EmptyData
  /\ removed' = ""
  /\ keys' = <<>>
  /\ bi' = 0
  /\ jira' = EmptyMap
  /\ calls' = <<>>
  /\ outcome' = "running"
  /\ sync_id' = 0
  /\ runs' = runs + 1
  /\ UNCHANGED <<db, status>>

\* ------------------------------------------------------------------ one run

Next ==
  \/ Invoke({"fetch_and_parse", "sync_confluence_data"}, PipeDocs, 1)
  \/ Fetch
  \/ Parse
  \/ BatchChunk(BatchKinds)
  \/ Enrich
  \/ Risks(QueryKinds)
  \/ Bugs(QueryKinds)
  \/ Persist

Spec == Init /\ [][Next]_vars

\* ------------------------------------------------------------------ runs in a row

MaxRuns == 2

\* A full page, the page after its rows and the bugs query were taken out, and
\* a page that writes the same sprint line twice.
SyncDocs ==
  {PipeDoc(MaxInits, MaxEpics, TRUE, TRUE),
   PipeDoc(0, 0, TRUE, FALSE),
   <<SprintLine(185, "January 26 - February 06")>> \o PipeDoc(0, 0, FALSE, FALSE)}

SyncHandlers == {"sync_confluence_data", "trigger_confluence_sync", "trigger_full_sync"}

SyncBodies == {ParseAll(NewParser(doc)) : doc \in SyncDocs}

NextSync ==
  \/ Invoke(SyncHandlers, SyncDocs, MaxRuns)
  \/ Push(SyncBodies, MaxRuns)
  \/ Fetch
  \/ Parse
  \/ BatchChunk({"error", "all"})
  \/ Enrich
  \/ Risks({"error", "two", "dup"})
  \/ Bugs({"error", "two"})
  \/ Persist

SpecSync == Init /\ [][NextSync]_vars

\* ------------------------------------------------------------------ batch lookup alone

\* n distinct keys, the initiatives' then the epics' as fetch_and_parse collects them.
KeyList(n) == [i \in 1..n |-> IF i <= n \div 2 THEN Key("BEESIP-", i) ELSE Key("BEESCAD-", i)]

InitBatch ==
  \E n \in 0..MaxKeys :
    InitRun("get_issues_batch", <<>>, "batch") /\ keys = KeyList(n)

NextBatch == BatchNoKeys \/ BatchChunk(BatchKinds)

SpecBatch == InitBatch /\ [][NextBatch]_vars

\* ------------------------------------------------------------------ the parser alone

\* Rows of the pages the parser is run on: R1 and R2 offer the same initiative
\* and epic keys with different fields, R3 other keys, R4 no key macro.
R1 ==
  Row(<<Cell(<<Macro("status", NoKey, "catalog"), Macro("jira", Key("BEESIP-", 1), NONE)>>,
             <<":high:">>, <<"Delivery">>, <<>>, <<>>),
        Cell(<<Macro("jira", Key("BEESIP-", 1), NONE)>>, <<>>, <<>>, <<>>, <<>>),
        Cell(<<Macro("jira", Key("BEESCAD-", 1), NONE)>>, <<>>, <<>>, <<"XXL">>, <<>>),
        Cell(<<>>, <<>>, <<>>, <<>>, <<"185">>)>>)
R2 ==
  Row(<<Cell(<<Macro("jira", Key("BEESIP-", 1), NONE)>>, <<":smile:", ":low:">>, <<>>, <<>>, <<>>),
        Cell(<<Macro("jira", Key("BEESCAD-", 7), NONE)>>, <<>>, <<>>, <<>>, <<>>),
        Cell(<<Macro("jira", Key("BEESCAD-", 1), NONE)>>, <<>>, <<>>, <<"m">>, <<>>)>>)
R3 ==
  Row(<<Cell(<<Macro("status", NoKey, NONE), Macro("jira", Key("BEESIP-", 2), NONE)>>,
             <<>>, <<"cross-quarter">>, <<>>, <<>>),
        EmptyCell,
        Cell(<<Macro("jira", Key("BEESCAD-", 2), NONE)>>, <<>>, <<>>, <<>>, <<>>)>>)
R4 ==
  Row(<<Cell(<<Macro("status", NoKey, "Content")>>, <<>>, <<>>, <<>>, <<>>)>>)

ParseTokens ==
  {Anchor(A_PRIO, TRUE), Anchor(A_PLAN, TRUE), Anchor(A_RISKS, TRUE), Anchor(A_BUGS, TRUE),
   JqlParam(RiskQuery), JqlParam(BugQuery), R1, R2, R3, R4,
   SprintLine(185, "January 26 - February 06")}

\* The pages of at most n tokens.
DocsUpTo(n) == UNION {[1..k -> ParseTokens] : k \in 0..n}

\* The page with every anchor of one section taken out.
RemoveAnchors(doc, name) ==
  Filter(doc, LAMBDA t : ~(t.kind = "anchor" /\ t.name = name))

InitParse ==
  \E doc \in DocsUpTo(MaxDocLen) : InitRun("parse_all", doc, "new") /\ keys = <<>>

\* parser.parse_all(), on a parser just constructed or one that has parsed before
ParseOnce ==
  /\ pc \in {"new", "parsed"}
  /\ first' = data
  /\ data' = ParseAll(parser)
  /\ parser' = ParserAfterParseAll(parser)
  /\ pc' = IF pc = "new" THEN "parsed" ELSE "reparsed"
  /\ UNCHANGED <<handler, storage, fetched, removed, keys, bi, jira, calls, outcome,
                 status>>
  /\ UNCHANGED store

\* A second parser, on the page without the anchors of one section.
ParseWithout ==
  /\ pc = "parsed"
  /\ \E name \in {A_RISKS, A_BUGS} :
       LET p == NewParser(RemoveAnchors(storage, name))
       IN /\ removed' = name
          /\ first' = data
          /\ data' = ParseAll(p)
          /\ parser' = ParserAfterParseAll(p)
  /\ pc' = "without"
  /\ UNCHANGED <<handler, storage, fetched, keys, bi, jira, calls, outcome, status>>
  /\ UNCHANGED store

NextParse == ParseOnce \/ ParseWithout

SpecParse == InitParse /\ [][NextParse]_vars

\* ------------------------------------------------------------------ pages that lack a section

\* The headings of the four named sections.
SectionNames == {A_PRIO, A_PLAN, A_RISKS, A_BUGS}

SectionTokens ==
  {Anchor(A_PRIO, TRUE), Anchor(A_E2E, TRUE), Anchor(A_PLAN, TRUE), Anchor(A_RISKS, TRUE),
   Anchor(A_BUGS, TRUE), JqlParam(RiskQuery), R1, R3,
   SprintLine(185, "January 26 - February 06")}

SectionDocsUpTo(n) == UNION {[1..k -> SectionTokens] : k \in 0..n}

\* The page with other text of the same length where the headings of one
\* section were.
BlankAnchors(doc, name) ==
  [i \in DOMAIN doc |->
     IF doc[i].kind = "anchor" /\ doc[i].name = name THEN Pad(Width(doc[i])) ELSE doc[i]]

InitSections ==
  \E doc \in SectionDocsUpTo(MaxDocLen) : InitRun("parse_all", doc, "new") /\ keys = <<>>

\* A second parser, on the page that lacks the heading of one section.
ParseMissing ==
  /\ pc = "parsed"
  /\ \E name \in SectionNames :
       LET p == NewParser(BlankAnchors(storage, name))
       IN /\ removed' = name
          /\ first' = data
          /\ data' = ParseAll(p)
          /\ parser' = ParserAfterParseAll(p)
  /\ pc' = "missing"
  /\ UNCHANGED <<handler, storage, fetched, keys, bi, jira, calls, outcome, status>>
  /\ UNCHANGED store

NextSections == ParseOnce \/ ParseMissing

SpecSections == InitSections /\ [][NextSections]_vars

\* ------------------------------------------------------------------ one table row

MaxMarkers == 2
MaxWords == 2

\* Inline markers of a cell: two keys of the table and one that is not.
Markers == {":high:", ":low:", ":smile:"}

\* Tokens of the cleaned text of an epic cell.
Words == {"XXL", "xxl", "M", "m", "unknown"}

\* The status-label macros of a cell: none, or one with or without a title.
StatusMacros ==
  {<<>>, <<Macro("status", NoKey, "catalog")>>, <<Macro("status", NoKey, "CATALOG")>>,
   <<Macro("status", NoKey, NONE)>>}

\* The bracketed texts after the last macro of a cell.
Brackets == {<<>>, <<"Delivery">>, <<"cross-quarter", "Delivery">>}

MarkerSeqs(n) == UNION {[1..k -> Markers] : k \in 0..n}

WordSeqs(n) == UNION {[1..k -> Words] : k \in 0..n}

\* A row with an initiative in its first cell and an epic in its third.
CellRow(label, emojis, brackets, words) ==
  Row(<<Cell(label \o <<Macro("jira", Key("BEESIP-", 1), NONE)>>, emojis, brackets,
             <<>>, <<>>),
        EmptyCell,
        Cell(<<Macro("jira", Key("BEESCAD-", 1), NONE)>>, <<>>, <<>>, words, <<>>)>>)

\* The page with the row in the priorities table and in the plan table.
CellDoc(row) == <<Anchor(A_PRIO, TRUE), row, Anchor(A_PLAN, TRUE), row>>

InitCell ==
  \E label \in StatusMacros, emojis \in MarkerSeqs(MaxMarkers), brackets \in Brackets,
     words \in WordSeqs(MaxWords) :
    /\ InitRun("parse_all", CellDoc(CellRow(label, emojis, brackets, words)), "new")
    /\ keys = <<>>

NextCell == ParseOnce

SpecCell == InitCell /\ [][NextCell]_vars

\* ------------------------------------------------------------------ pages for the section locator

\* The anchors of the priorities section as written in the code and in another
\* case, the plan heading, and two rows.
LocateTokens ==
  {Anchor(A_PRIO, TRUE), Anchor(A_PRIO, FALSE), Anchor(A_E2E, TRUE), Anchor(A_E2E, FALSE),
   Anchor(A_PLAN, TRUE), R1, R3}

LocateDocsUpTo(n) == UNION {[1..k -> LocateTokens] : k \in 0..n}

InitLocate ==
  \E doc \in LocateDocsUpTo(MaxDocLen) : InitRun("parse_all", doc, "new") /\ keys = <<>>

NextLocate == ParseOnce

SpecLocate == InitLocate /\ [][NextLocate]_vars

\* ------------------------------------------------------------------ rows with and without keys

MaxRows == 2

\* The key macros of a cell: none, one without a key parameter, or one with a
\* key of either pattern.
KeyMacros(n) ==
  {<<>>, <<Macro("jira", NoKey, NONE)>>, <<Macro("jira", Key("BEESIP-", n), NONE)>>,
   <<Macro("jira", Key("BEESCAD-", n), NONE)>>}

KeyCell(macros) == Cell(macros, <<>>, <<>>, <<>>, <<>>)

\* Rows of two and of three cells whose cells hold key macros of the four forms.
KeyRows ==
  {Row(<<KeyCell(a), KeyCell(b)>>) : a \in KeyMacros(1), b \in KeyMacros(2) \ {<<>>}}
  \cup {Row(<<KeyCell(a), KeyCell(b), KeyCell(c)>>) :
          a \in KeyMacros(1) \ {<<>>}, b \in KeyMacros(2) \ {<<Macro("jira", NoKey, NONE)>>},
          c \in KeyMacros(3)}

KeyRowSeqs(n) == UNION {[1..k -> KeyRows] : k \in 0..n}

\* The page with the rows in the priorities table and in the plan table.
KeyDoc(rows) == <<Anchor(A_PRIO, TRUE)>> \o rows \o <<Anchor(A_PLAN, TRUE)>> \o rows

InitKeys ==
  \E rows \in KeyRowSeqs(MaxRows) : InitRun("parse_all", KeyDoc(rows), "new") /\ keys = <<>>

NextKeys == ParseOnce

SpecKeys == InitKeys /\ [][NextKeys]_vars

\* ------------------------------------------------------------------ the cells of a plan row

MaxCells == 13

\* A plan row of n cells: the epic key in cell 2, "SP-185 SP-186" in the cell
\* at position p1 and "SP-190" in the cell at position p2 (positions from 1, 0
\* for nowhere), and the given words in the twelfth and thirteenth cell.
PlanRow(n, p1, p2, w12, w13) ==
  Row([i \in 1..n |->
         Cell(IF i = 3 THEN <<Macro("jira", Key("BEESCAD-", 1), NONE)>> ELSE <<>>,
              <<>>, <<>>,
              IF i = 12 THEN w12 ELSE IF i = 13 THEN w13 ELSE <<>>,
              IF i = p1 THEN <<"185", "186">> ELSE IF i = p2 THEN <<"190">> ELSE <<>>)])

InitPlanRow ==
  \E n \in 3..MaxCells, p1 \in 0..MaxCells, p2 \in 0..MaxCells,
     w12 \in {<<>>, <<"team">>}, w13 \in {<<>>, <<"late">>} :
    /\ InitRun("parse_all", <<Anchor(A_PLAN, TRUE), PlanRow(n, p1, p2, w12, w13)>>, "new")
    /\ keys = <<>>

NextPlanRow == ParseOnce

SpecPlanRow == InitPlanRow /\ [][NextPlanRow]_vars

\* ------------------------------------------------------------------ pages with arrow markers

\* An arrow marker, other markup that nearly fills the window after it, and
\* the lines of two sprints, the digits of one number beginning the other.
SprintTokens ==
  {Arrow, Pad(WindowChars - 20), SprintLine(185, "January 26 - February 06"),
   SprintLine(18, "March 03 - March 14")}

SprintDocsUpTo(n) == UNION {[1..k -> SprintTokens] : k \in 0..n}

InitSprints ==
  \E doc \in SprintDocsUpTo(MaxDocLen) : InitRun("parse_all", doc, "new") /\ keys = <<>>

NextSprints == ParseOnce

SpecSprints == InitSprints /\ [][NextSprints]_vars

\* ================================================================== properties

Last(q) == q[Len(q)]

CallsTo(api) == Filter(calls, LAMBDA c : c.api = api)

\* Every search of the run so far failed.
AllSearchesFailed == \A i \in DOMAIN calls : calls[i].answer = "error"

\* The fields an extractor takes from the page.
SamePageFields(rec, parsed) ==
  \A f \in DOMAIN parsed \ {"title", "status"} : rec[f] = parsed[f]

\* C1: when every search of the run fails, fetch_and_parse does not raise, and
\* the result it returns holds every initiative and epic of the page, in page
\* order, with the page's team, priority, category, size and sprint, and with
\* empty title and status.
C1_BatchFailureKeepsPageData ==
  (handler = "fetch_and_parse" /\ fetched = "ok" /\ AllSearchesFailed) =>
    /\ outcome # "raised"
    /\ (pc = "done" /\ keys # <<>>) =>
         /\ outcome = "returned"
         /\ Len(CallsTo("batch")) >= 1
         /\ Len(data.initiatives) = Len(ParseInitiatives(storage))
         /\ Len(data.epics) = Len(ParseEpics(storage))
         /\ \A i \in DOMAIN data.initiatives :
              /\ SamePageFields(data.initiatives[i], ParseInitiatives(storage)[i])
              /\ data.initiatives[i].title = "" /\ data.initiatives[i].status = ""
         /\ \A i \in DOMAIN data.epics :
              /\ SamePageFields(data.epics[i], ParseEpics(storage)[i])
              /\ data.epics[i].title = "" /\ data.epics[i].status = ""

C1_Witness ==
  /\ handler = "fetch_and_parse" /\ pc = "done" /\ outcome = "returned"
  /\ AllSearchesFailed
  /\ Len(CallsTo("batch")) = 2 /\ Len(CallsTo("risks")) = 1
  /\ Len(data.initiatives) > BatchSize /\ data.epics # <<>>
  /\ data.initiatives[1].team = "CATALOG"

\* C2: fetch_and_parse raises only when the document fetch failed.
C2_OnlyFetchFailureRaises ==
  (handler = "fetch_and_parse" /\ outcome = "raised") => fetched = "failed"

\* C5: enrich_with_jira_data sets title and status of the records whose key is
\* in the mapping to the mapping's values and changes nothing else: not the
\* other fields, not the records whose key is absent, not the order or length
\* of the two sequences, not the other members of the result.
EnrichEffect(old, new, keyField, mapping) ==
  /\ Len(new) = Len(old)
  /\ \A i \in DOMAIN old :
       /\ \A f \in DOMAIN old[i] \ {"title", "status"} : new[i][f] = old[i][f]
       /\ IF old[i][keyField] \in DOMAIN mapping
          THEN /\ new[i].title = mapping[old[i][keyField]].summary
               /\ new[i].status = mapping[old[i][keyField]].status
          ELSE /\ new[i].title = old[i].title
               /\ new[i].status = old[i].status

C5_EnrichFrame ==
  [][pc = "enrich" =>
       /\ EnrichEffect(data.initiatives, data'.initiatives, "beesip_id", jira)
       /\ EnrichEffect(data.epics, data'.epics, "beescad_id", jira)
       /\ \A f \in DOMAIN data \ {"initiatives", "epics", "enrichment"} :
            data'[f] = data[f]]_vars

C5_Witness ==
  /\ handler = "fetch_and_parse" /\ pc = "risks" /\ data.enrichment.present
  /\ \E i \in DOMAIN data.initiatives :
       /\ data.initiatives[i].title = "Revamp pricing"
       /\ data.initiatives[i].priority = "High"
  /\ \E i \in DOMAIN data.epics : data.epics[i].beescad_id \notin DOMAIN jira

\* Did the stage of this run fail: its search failed, or a row of the answer
\* made the loop raise.
RisksStageFailed ==
  \E i \in DOMAIN calls :
    /\ calls[i].api = "risks"
    /\ \/ QueryResponse(calls[i].answer).status # "ok"
       \/ BuildRisks(QueryResponse(calls[i].answer).issues, <<>>).raised

BugsStageFailed ==
  \E i \in DOMAIN calls :
    /\ calls[i].api = "bugs"
    /\ \/ QueryResponse(calls[i].answer).status # "ok"
       \/ BuildBugs(QueryResponse(calls[i].answer).issues, <<>>).raised

\* C8: in every run that yields a result, a failure of the risks stage leaves
\* the risks empty, and the bugs query is still executed and its rows become
\* the bugs; a failure of the bugs stage leaves the bugs empty and the risks as
\* built; no failure leaves a partial sequence.
C8_StageFailureLeavesEmpty ==
  (fetched = "ok" /\ pc \in {"persist", "done"} /\ outcome # "raised") =>
    /\ RisksStageFailed =>
         /\ data.risks = <<>>
         /\ Truthy(data.bugs_jql) => CallsTo("bugs") # <<>>
         /\ (CallsTo("bugs") # <<>> /\ ~BugsStageFailed) =>
              data.bugs = BuildBugs(QueryResponse(CallsTo("bugs")[1].answer).issues,
                                    <<>>).rows
    /\ BugsStageFailed =>
         /\ data.bugs = <<>>
         /\ (CallsTo("risks") # <<>> /\ ~RisksStageFailed) =>
              data.risks = BuildRisks(QueryResponse(CallsTo("risks")[1].answer).issues,
                                      <<>>).rows

\* ------------------------------------------------------------------ parser properties

InitSectionRows(doc) == RowsOf(FindSection(doc, A_PRIO, A_E2E).toks)

PlanRows(doc) == RowsOf(PlanSection(doc).toks)

NoRepeat(recs, keyField) ==
  \A i, j \in DOMAIN recs : recs[i][keyField] = recs[j][keyField] => i = j

\* C3: in one parse no key occurs twice among the initiatives or among the
\* epics, and the record kept for a key carries the fields of the first valid
\* row, in document order, that offers the key.
C3_FirstOccurrenceWins ==
  pc \in {"parsed", "reparsed", "without"} =>
    /\ NoRepeat(data.initiatives, "beesip_id")
    /\ NoRepeat(data.epics, "beescad_id")
    /\ \A k \in DOMAIN data.initiatives :
         LET rows == InitSectionRows(parser.storage)
             f == FirstFrom(rows, 1, LAMBDA r : InitRowKey(r) = data.initiatives[k].beesip_id)
         IN f # 0 /\ data.initiatives[k] = InitiativeOfRow(rows[f])
    /\ \A k \in DOMAIN data.epics :
         LET rows == PlanRows(parser.storage)
             f == FirstFrom(rows, 1, LAMBDA r : EpicRowKey(r) = data.epics[k].beescad_id)
         IN f # 0 /\ data.epics[k] = EpicOfRow(rows[f])

C3_Witness ==
  /\ pc = "parsed"
  /\ Len(data.initiatives) = 1
  /\ LET rows == InitSectionRows(storage)
     IN /\ Len(rows) = 2
        /\ InitRowKey(rows[1]) = InitRowKey(rows[2])
        /\ InitiativeOfRow(rows[1]).team # InitiativeOfRow(rows[2]).team
        /\ InitiativeOfRow(rows[1]).priority # InitiativeOfRow(rows[2]).priority
        /\ data.initiatives[1].team = InitiativeOfRow(rows[1]).team

C7_SectionIsolation ==
  pc = "without" =>
    /\ removed = A_BUGS => data.risks_jql = first.risks_jql
    /\ removed = A_RISKS => data.bugs_jql = first.bugs_jql

C7_Witness ==
  /\ pc = "without"
  /\ removed = A_BUGS
  /\ parser.storage # storage
  /\ first.bugs_jql # NoJql /\ data.bugs_jql = NoJql
  /\ data.risks_jql # NoJql

\* ------------------------------------------------------------------ batch lookup properties

NumChunks(n) == (n + BatchSize - 1) \div BatchSize

RECURSIVE QueriedKeys(_)
QueriedKeys(cs) == IF cs = <<>> THEN <<>> ELSE Head(cs).keys \o QueriedKeys(Tail(cs))

\* The step that logs a failed search: the mapping stays as it was and the
\* loop goes on to the next chunk, or returns after the last.
FailedChunkStep ==
  (calls' # calls /\ Last(calls').answer = "error") =>
    /\ jira' = jira
    /\ outcome' # "raised"
    /\ IF HasChunkAfter(keys, bi)
       THEN pc' = "batch" /\ bi' = bi + BatchSize
       ELSE pc' = "done" /\ outcome' = "returned"

\* At the return every chunk has been queried and the mapping holds the
\* entries of the chunks that were answered.
ReturnedMapping ==
  (handler = "get_issues_batch" /\ outcome = "returned") =>
    /\ Len(calls) = NumChunks(Len(keys))
    /\ \A i \in DOMAIN calls :
         LET resp == BatchResponse(calls[i].answer, calls[i].keys)
         IN resp.status = "ok" =>
              \A r \in DOMAIN resp.issues :
                /\ IssueKey(resp.issues[r]) \in DOMAIN jira
                /\ jira[IssueKey(resp.issues[r])] = BatchEntry(resp.issues[r])

\* C9: a chunk whose search fails does not stop the lookup: every later chunk
\* is still queried, and the mapping returned holds the entries of every chunk
\* whose search succeeded.
C9_ChunkFailureContained == [][FailedChunkStep]_vars /\ []ReturnedMapping

C9_Witness ==
  /\ handler = "get_issues_batch" /\ outcome = "returned"
  /\ Len(calls) = 3
  /\ calls[1].answer = "all" /\ calls[2].answer = "error" /\ calls[3].answer = "all"
  /\ Cardinality(DOMAIN jira) = Len(calls[1].keys) + Len(calls[3].keys)

\* C10: for n keys the lookup sends ceil(n/50) searches, each for at most 50
\* keys, which together name the keys once each, in input order; for no keys
\* it sends none and returns the empty mapping.
C10_Chunking ==
  handler = "get_issues_batch" =>
    /\ \A i \in DOMAIN calls : Len(calls[i].keys) <= BatchSize /\ calls[i].keys # <<>>
    /\ Len(calls) <= NumChunks(Len(keys))
    /\ QueriedKeys(calls) = SubSeq(keys, 1, Len(QueriedKeys(calls)))
    /\ outcome = "returned" =>
         /\ Len(calls) = NumChunks(Len(keys))
         /\ QueriedKeys(calls) = keys
         /\ keys = <<>> => (calls = <<>> /\ jira = EmptyMap)

C10_Witness ==
  /\ handler = "get_issues_batch" /\ outcome = "returned"
  /\ Len(keys) = 2 * BatchSize + 1
  /\ Len(calls) = 3
  /\ Len(calls[3].keys) = 1

\* ------------------------------------------------------------------ persistence properties

\* The keys of the entities a result holds, type by type.
RunKeys(d) ==
  [sprints |-> {d.sprints[i].number : i \in DOMAIN d.sprints},
   initiatives |-> {d.initiatives[i].beesip_id : i \in DOMAIN d.initiatives},
   epics |-> {d.epics[i].beescad_id : i \in DOMAIN d.epics},
   risks |-> {d.risks[i].beescad_id : i \in DOMAIN d.risks},
   bugs |-> {d.bugs[i].beescad_id : i \in DOMAIN d.bugs}]

\* The keys of the rows the tables hold.
TableKeys(t) ==
  [sprints |-> {SprintKey(r) : r \in t.sprints},
   initiatives |-> {InitiativeKey(r) : r \in t.initiatives},
   epics |-> {EpicKey(r) : r \in t.epics},
   risks |-> {EpicKey(r) : r \in t.risks},
   bugs |-> {EpicKey(r) : r \in t.bugs}]

Succeeded == pc = "done" /\ outcome \in {"True", "success", "ok"}

\* C4: when a sync on any persistence path has completed successfully, each of
\* the five tables holds the entities of that run and no others.
C4_RunReplacesTables == Succeeded => TableKeys(db) = RunKeys(data)

\* The same for the scheduled path alone.
ScheduledReplacesTables ==
  (Succeeded /\ handler = "sync_confluence_data") => TableKeys(db) = RunKeys(data)

\* ------------------------------------------------------------------ orchestration properties

\* The place of a tracker call in the order of the stages.
StageRank(api) == CASE api = "batch" -> 1 [] api = "risks" -> 2 [] api = "bugs" -> 3

\* C11: the stages of a run happen in order: nothing is extracted and no
\* tracker call is made before the document fetch has completed; every chunk
\* of the batch lookup is queried and the merge is done before the risks
\* query; the risks query comes before the bugs query; the result is returned
\* only after the bugs stage.
C11_StagesInOrder ==
  /\ fetched # "ok" => (calls = <<>> /\ data = EmptyData /\ outcome # "returned")
  /\ \A i, j \in DOMAIN calls :
       i < j => StageRank(calls[i].api) <= StageRank(calls[j].api)
  /\ ( /\ handler = "fetch_and_parse"
       /\ keys # <<>>
       /\ \/ pc \in {"risks", "bugs"}
          \/ outcome = "returned"
          \/ CallsTo("risks") # <<>>
          \/ CallsTo("bugs") # <<>> ) =>
       /\ Len(CallsTo("batch")) = NumChunks(Len(keys))
       /\ data.enrichment.present
  /\ (pc = "bugs" \/ CallsTo("bugs") # <<>>) =>
       (Truthy(data.risks_jql) => CallsTo("risks") # <<>>)
  /\ outcome = "returned" =>
       /\ pc = "done"
       /\ Truthy(data.risks_jql) => CallsTo("risks") # <<>>
       /\ Truthy(data.bugs_jql) => CallsTo("bugs") # <<>>

C11_Witness ==
  /\ handler = "fetch_and_parse" /\ outcome = "returned"
  /\ Len(calls) = 4
  /\ calls[1].api = "batch" /\ calls[2].api = "batch"
  /\ calls[3].api = "risks" /\ calls[4].api = "bugs"
  /\ data.enrichment.present /\ data.risks # <<>> /\ data.bugs # <<>>

\* No search is sent twice: the chunks queried are different chunks, and the
\* risks and the bugs query are sent at most once.
NoRetry ==
  /\ \A i, j \in DOMAIN calls :
       (calls[i].api = "batch" /\ calls[j].api = "batch" /\ i # j) =>
         calls[i].keys # calls[j].keys
  /\ Len(CallsTo("batch")) <= NumChunks(Len(keys))
  /\ Len(CallsTo("risks")) <= 1
  /\ Len(CallsTo("bugs")) <= 1
  /\ Len(calls) <= NumChunks(Len(keys)) + 2

\* C12: a run of fetch_and_parse ends by returning a result or by propagating
\* the failure of the document fetch, and it never retries: over n keys it
\* makes at most ceil(n/50) + 2 tracker calls, no search twice.
C12_TerminalAndNoRetry ==
  handler = "fetch_and_parse" =>
    /\ NoRetry
    /\ pc = "done" => (outcome = "returned" \/ (outcome = "raised" /\ fetched = "failed"))

\* The place of a control point in the order of the stages.
StageOf(p) ==
  CASE p = "idle" -> 0 [] p = "fetch" -> 1 [] p = "parse" -> 2 [] p = "batch" -> 3
    [] p = "enrich" -> 4 [] p = "risks" -> 5 [] p = "bugs" -> 6 [] p = "persist" -> 7
    [] p = "done" -> 8

\* Every step of a run moves it to a later stage, or to the next chunk of the
\* batch lookup: a run takes at most 6 + ceil(n/50) steps.
RunAdvances ==
  [][pc # "idle" =>
       \/ StageOf(pc') > StageOf(pc)
       \/ pc = "batch" /\ pc' = "batch" /\ bi' = bi + BatchSize /\ bi' < Len(keys)]_vars

\* C13: when the document cannot be fetched the run ends there: the failure
\* goes to the caller, there is no result, and no tracker call is made.
C13_FetchFailurePropagates ==
  fetched = "failed" =>
    /\ pc = "done"
    /\ outcome = Failure(handler)
    /\ handler = "fetch_and_parse" => outcome = "raised"
    /\ calls = <<>>
    /\ data = EmptyData

C13_Witness ==
  /\ handler = "fetch_and_parse"
  /\ fetched = "failed"
  /\ outcome = "raised"
  /\ pc = "done"

\* ------------------------------------------------------------------ missing sections

\* The priorities section of the page ends at a heading of its own, not at the
\* heading of the plan (whose text also holds "END-TO-END").
OwnEndAnchor(doc) ==
  LET i == FirstFrom(doc, 1, LAMBDA t : HasText(t, A_PRIO, FALSE))
      j == IF i = 0 THEN 0 ELSE FirstFrom(doc, i + 1, LAMBDA t : HasText(t, A_E2E, FALSE))
  IN j # 0 /\ doc[j].name = A_E2E

TheRow == storage[2]

InitCellOf(row) == row.cells[1]

EpicWords == TheRow.cells[3].words

\* The title of the first status-label macro of a cell, NONE without one.
StatusTitle(cell) ==
  LET labels == MacrosOfType(cell, "status")
  IN IF labels = <<>> THEN NONE ELSE labels[1].title

HasStatusMacro(cell) == MacrosOfType(cell, "status") # <<>>

\* The first marker of the cell that is a key of the table, 0 without one.
FirstRecognized(emojis) ==
  FirstFrom(emojis, 1, LAMBDA e : e \in DOMAIN EMOJI_PRIORITY_MAP)

\* The row has a key macro, a titled status-label macro, a recognized marker
\* and a bracketed trailing text.
FullRow(cell) ==
  /\ StatusTitle(cell) # NONE
  /\ FirstRecognized(cell.emojis) # 0
  /\ cell.brackets # <<>>

\* The fields C15 names, with the team given.
RowFields(rec, cell, team) ==
  /\ rec.beesip_id = ParamKey(MacrosOfType(cell, "jira")[1])
  /\ rec.team = team
  /\ rec.priority = EMOJI_PRIORITY_MAP[cell.emojis[FirstRecognized(cell.emojis)]]
  /\ rec.category = cell.brackets[1]
  /\ rec.title = ""
  /\ rec.status = ""

\* C15 as stated: the row yields an initiative whose team is the title T of
\* the status-label macro as written.
C15_TeamIsTitle ==
  pc = "parsed" =>
    /\ Len(data.initiatives) = 1
    /\ FullRow(InitCellOf(TheRow)) =>
         RowFields(data.initiatives[1], InitCellOf(TheRow), StatusTitle(InitCellOf(TheRow)))
    /\ ~HasStatusMacro(InitCellOf(TheRow)) => data.initiatives[1].team = "UNKNOWN"

\* C15: a priorities row whose first cell holds a key macro for K, a
\* status-label macro titled T, a recognized marker m and a trailing "[C]"
\* yields one initiative with key K, team T in upper case, the priority the
\* table gives m, category C and empty title and status; without a
\* status-label macro the team is "UNKNOWN".
C15_RowToInitiative ==
  pc = "parsed" =>
    /\ Len(data.initiatives) = 1
    /\ FullRow(InitCellOf(TheRow)) =>
         RowFields(data.initiatives[1], InitCellOf(TheRow),
                   Upper(StatusTitle(InitCellOf(TheRow))))
    /\ ~HasStatusMacro(InitCellOf(TheRow)) => data.initiatives[1].team = "UNKNOWN"

C15_Witness ==
  /\ pc = "parsed"
  /\ FullRow(InitCellOf(TheRow))
  /\ StatusTitle(InitCellOf(TheRow)) = "catalog"
  /\ data.initiatives[1].team = "CATALOG"
  /\ data.initiatives[1].priority = "Low"
  /\ data.initiatives[1].category = "cross-quarter"

\* C16: the priority is the table value of the first marker, in cell order,
\* that is a key of the table; markers that are not keys are passed over, and
\* without a recognized marker the priority is "Medium".
C16_FirstRecognizedMarker ==
  pc = "parsed" =>
    LET emojis == InitCellOf(TheRow).emojis
        i == FirstRecognized(emojis)
    IN data.initiatives[1].priority =
         IF i = 0 THEN "Medium" ELSE EMOJI_PRIORITY_MAP[emojis[i]]

C16_Witness ==
  /\ pc = "parsed"
  /\ InitCellOf(TheRow).emojis = <<":smile:", ":low:">>
  /\ data.initiatives[1].priority = "Low"

\* C17 as stated: a leading token "XXL" yields "XXL", and any other leading
\* token yields "" whatever follows.
C17_OnlyLeadingXXL ==
  (pc = "parsed" /\ EpicWords # <<>>) =>
    /\ Head(EpicWords) = "XXL" => data.epics[1].size = "XXL"
    /\ Head(EpicWords) # "XXL" => data.epics[1].size = ""

\* C17: a leading token "XXL" yields "XXL"; any other leading token that is a
\* size, compared in upper case, yields that size; a leading token that is no
\* size is passed over, and the size is "" exactly when no token of the cell
\* is a size.
C17_LeadingToken ==
  (pc = "parsed" /\ EpicWords # <<>>) =>
    /\ Head(EpicWords) = "XXL" => data.epics[1].size = "XXL"
    /\ Upper(Head(EpicWords)) \in VALID_SIZES => data.epics[1].size = Upper(Head(EpicWords))
    /\ data.epics[1].size = "" <=>
         \A i \in DOMAIN EpicWords : Upper(EpicWords[i]) \notin VALID_SIZES

C17_Witness ==
  /\ pc = "parsed"
  /\ EpicWords = <<"unknown", "M">>
  /\ data.epics[1].size = "M"

\* C18 as stated: the size is the first token that is a member of the size
\* set as written, "" when there is none.
C18_FirstMemberAsWritten ==
  pc = "parsed" =>
    LET i == FirstFrom(EpicWords, 1, LAMBDA w : w \in VALID_SIZES)
    IN /\ data.epics[1].size = IF i = 0 THEN "" ELSE EpicWords[i]
       /\ data.epics[1].size \in VALID_SIZES \cup {""}

\* C18: the size is the first token of the cleaned text of cell[2] whose
\* upper-case form is a member of {XXS, XS, S, M, L, XL, XXL}, in upper case,
\* and "" when there is none; it is always a member of the set or empty.
C18_FirstSizeToken ==
  pc = "parsed" =>
    LET i == FirstFrom(EpicWords, 1, LAMBDA w : Upper(w) \in VALID_SIZES)
    IN /\ data.epics[1].size = IF i = 0 THEN "" ELSE Upper(EpicWords[i])
       /\ data.epics[1].size \in VALID_SIZES \cup {""}

C18_Witness ==
  /\ pc = "parsed"
  /\ EpicWords = <<"m", "XXL">>
  /\ data.epics[1].size = "M"

\* ------------------------------------------------------------------ dynamic section properties

\* The heading of the other dynamic section.
OtherSection(tok, name) ==
  tok.kind = "anchor" /\ tok.name \in {A_RISKS, A_BUGS} \ {name}

\* The query parameter inside a section: the first one between the section's
\* first heading and the next heading of the other dynamic section, NoJql
\* without one.
OwnSectionJql(doc, name) ==
  LET i == FirstFrom(doc, 1, LAMBDA t : HasText(t, name, TRUE))
      e == IF i = 0 THEN 0 ELSE FirstFrom(doc, i + 1, LAMBDA t : OtherSection(t, name))
      j == IF i = 0 THEN 0
           ELSE FirstFrom(doc, i + 1, LAMBDA t : t.kind = "jql" /\ t.raw # <<>>)
  IN IF j = 0 \/ (e # 0 /\ e < j) THEN NoJql ELSE DecodeJql(doc[j].raw)

\* C19: the resolver returns null for a section that holds no query parameter
\* of its own, even when a later section holds one, and a query it returns is
\* the value of the parameter found inside that section.
C19_QueryFromOwnSection ==
  pc = "parsed" =>
    /\ data.risks_jql = OwnSectionJql(storage, A_RISKS)
    /\ data.bugs_jql = OwnSectionJql(storage, A_BUGS)

\* C20: within one run no external key occurs twice among the risks, nor
\* among the bugs, whatever rows the tracker returns.
C20_NoRepeatedRiskOrBugKey ==
  /\ NoRepeat(data.risks, "beescad_id")
  /\ NoRepeat(data.bugs, "beescad_id")

\* ------------------------------------------------------------------ result properties

\* C21: in the sprints of one parse no two records carry the same number,
\* even when the page holds the same sprint line more than once.
C21_SprintNumbersUnique ==
  pc = "parsed" => NoRepeat(data.sprints, "number")

\* The initiatives and epics of the result that have a title.
TitledCount(d) ==
  Cardinality({i \in DOMAIN d.initiatives : d.initiatives[i].title # ""})
  + Cardinality({i \in DOMAIN d.epics : d.epics[i].title # ""})

\* C22: the diagnostic count returned with the result is the number of
\* initiatives and epics whose title is non-empty after the merge.
C22_CountIsTitledRecords ==
  (handler = "fetch_and_parse" /\ outcome = "returned") =>
    data.enrichment.items_enriched = TitledCount(data)

\* The rows the tracker returned to the search of one stage of the run: none
\* when the search was not made or failed.
RowsReturned(api) ==
  LET cs == CallsTo(api)
  IN IF cs = <<>> THEN <<>> ELSE SearchJira(QueryResponse(cs[1].answer)).rows

\* C23: risks and bugs exist only as tracker rows: they are empty until the
\* stage's search has been made; the result of a run holds one risk (bug) per
\* row returned for the risks (bugs) query, in row order; and with a null or
\* empty query string no search is made and the sequence is empty.
C23_OnlyTrackerRows ==
  handler = "fetch_and_parse" =>
    /\ CallsTo("risks") = <<>> => data.risks = <<>>
    /\ CallsTo("bugs") = <<>> => data.bugs = <<>>
    /\ (fetched = "ok" /\ pc # "parse" /\ ~Truthy(data.risks_jql)) => CallsTo("risks") = <<>>
    /\ (fetched = "ok" /\ pc # "parse" /\ ~Truthy(data.bugs_jql)) => CallsTo("bugs") = <<>>
    /\ outcome = "returned" =>
         /\ data.risks = [i \in DOMAIN RowsReturned("risks") |->
                            RiskOfIssue(RowsReturned("risks")[i])]
         /\ data.bugs = [i \in DOMAIN RowsReturned("bugs") |->
                           BugOfIssue(RowsReturned("bugs")[i])]

C23_Witness ==
  /\ handler = "fetch_and_parse"
  /\ outcome = "returned"
  /\ Len(data.risks) = 2
  /\ data.risks[1].beescad_id = data.risks[2].beescad_id
  /\ CallsTo("bugs") = <<>>
  /\ data.bugs = <<>>

\* ------------------------------------------------------------------ section locator properties

\* The tokens strictly between the first occurrence of the start anchor and
\* the first occurrence of the end anchor that follows it; not found when no
\* start anchor has an end anchor after it.
Between(doc, start, end, ci) ==
  LET starts == {i \in DOMAIN doc : HasText(doc[i], start, ci)}
      pairs == {i \in starts : \E j \in DOMAIN doc : j > i /\ HasText(doc[j], end, ci)}
  IN IF pairs = {} THEN NotFound
     ELSE LET i == CHOOSE x \in starts : \A y \in starts : x <= y
              ends == {j \in DOMAIN doc : j > i /\ HasText(doc[j], end, ci)}
              j == CHOOSE x \in ends : \A y \in ends : x <= y
          IN [found |-> TRUE, toks |-> Slice(doc, i + 1, j - 1)]

\* The section the locator is to return: the case-sensitive one when there is
\* one, else the case-insensitive one.
Located(doc, start, end) ==
  IF Between(doc, start, end, FALSE).found THEN Between(doc, start, end, FALSE)
  ELSE Between(doc, start, end, TRUE)

\* C24: the section locator returns what lies strictly between the first start
\* anchor and the first end anchor after it, "not found" when there is no such
\* pair, matching case-sensitively first and case-insensitively only when that
\* finds nothing; the initiatives of a parse are those of the rows of that
\* section.
C24_SectionLocator ==
  pc = "parsed" =>
    LET want == Located(storage, A_PRIO, A_E2E)
    IN /\ FindSection(storage, A_PRIO, A_E2E) = want
       /\ data.initiatives =
            IF want.found THEN InitiativesOfRows(RowsOf(want.toks)) ELSE <<>>

C24_Witness ==
  /\ pc = "parsed"
  /\ ~Between(storage, A_PRIO, A_E2E, FALSE).found
  /\ Between(storage, A_PRIO, A_E2E, TRUE).found
  /\ \E i \in DOMAIN storage : HasText(storage[i], A_PRIO, FALSE)
  /\ data.initiatives # <<>>

\* ------------------------------------------------------------------ key properties

\* The key parameter of the first key macro of a cell, NoKey without one.
FirstKeyOf(cell) ==
  LET found == {i \in DOMAIN cell.macros : cell.macros[i].type = "jira"}
  IN IF found = {} THEN NoKey
     ELSE cell.macros[CHOOSE i \in found : \A j \in found : i <= j].key

\* The row offers an initiative: its first cell has a key macro with an
\* Initiative-pattern key.
OffersInitiative(row) ==
  Len(row.cells) >= 1 /\ FirstKeyOf(row.cells[1]).prefix = "BEESIP-"

\* The row offers an epic: it has 3 cells and the third has a key macro with
\* an Epic-pattern key.
OffersEpic(row) ==
  Len(row.cells) >= 3 /\ FirstKeyOf(row.cells[3]).prefix = "BEESCAD-"

\* C25: every emitted initiative has a key with prefix "BEESIP-"; every
\* emitted epic has a key with prefix "BEESCAD-", comes from a row of at least
\* 3 cells, and has an initiative_key that is null or has prefix "BEESIP-"; a
\* row that fails the requirements is skipped and the rows after it are still
\* processed, so the keys emitted are those of all the rows that meet them.
C25_EmittedKeysMatch ==
  pc = "parsed" =>
    /\ \A i \in DOMAIN data.initiatives : data.initiatives[i].beesip_id.prefix = "BEESIP-"
    /\ \A i \in DOMAIN data.epics :
         /\ data.epics[i].beescad_id.prefix = "BEESCAD-"
         /\ data.epics[i].initiative_beesip.prefix \in {NONE, "BEESIP-"}
         /\ \E k \in DOMAIN PlanRows(storage) :
              /\ OffersEpic(PlanRows(storage)[k])
              /\ FirstKeyOf(PlanRows(storage)[k].cells[3]) = data.epics[i].beescad_id
    /\ {data.initiatives[i].beesip_id : i \in DOMAIN data.initiatives}
         = {FirstKeyOf(InitSectionRows(storage)[k].cells[1]) :
              k \in {k \in DOMAIN InitSectionRows(storage) :
                       OffersInitiative(InitSectionRows(storage)[k])}}
    /\ {data.epics[i].beescad_id : i \in DOMAIN data.epics}
         = {FirstKeyOf(PlanRows(storage)[k].cells[3]) :
              k \in {k \in DOMAIN PlanRows(storage) : OffersEpic(PlanRows(storage)[k])}}

C25_Witness ==
  /\ pc = "parsed"
  /\ Len(InitSectionRows(storage)) = 2
  /\ ~OffersInitiative(InitSectionRows(storage)[1])
  /\ ~OffersEpic(PlanRows(storage)[1])
  /\ FirstKeyOf(InitSectionRows(storage)[1].cells[1]).prefix = "BEESCAD-"
  /\ Len(data.initiatives) = 1
  /\ Len(data.epics) = 1
  /\ data.epics[1].initiative_beesip = NoKey

\* ------------------------------------------------------------------ plan row properties

\* The cells of the plan row of the page.
PlanCells == storage[2].cells

\* The positions, among cells 3 to 10 of the row (the 4th to the 11th), of
\* the cells that hold an "SP-<digits>" pattern.
SprintCells ==
  {i \in 4..11 : i <= Len(PlanCells) /\ PlanCells[i].sps # <<>>}

\* C26: the sprint_ref of an epic is the first "SP-<digits>" of the
\* lowest-indexed cell among cells 3 to 10 of its row that holds one, null
\* when none of them does or the row has no cell 3; cells 0 to 2 and the
\* cells after 10 never contribute.
C26_SprintRefFromCells3To10 ==
  pc = "parsed" =>
    /\ Len(data.epics) = 1
    /\ data.epics[1].sprint =
         IF SprintCells = {} THEN NONE
         ELSE PlanCells[CHOOSE i \in SprintCells : \A j \in SprintCells : i <= j].sps[1]

C26_Witness ==
  /\ pc = "parsed"
  /\ PlanCells[3].sps # <<>>
  /\ Len(PlanCells) = 13 /\ PlanCells[12].sps = <<"185", "186">>
  /\ SprintCells = {}
  /\ data.epics[1].sprint = NONE

\* C27 as stated: a row with a 12th cell, and so a row of exactly 12 cells,
\* yields an epic whose comments are the text of the 12th cell.
C27_TwelfthCellOfTwelve ==
  (pc = "parsed" /\ Len(PlanCells) >= 12) =>
    data.epics[1].milestones = PlanCells[12].words

\* C27: for a plan row that has a cell 12 (a thirteenth cell), the epic's
\* milestone comments are the cleaned text of that cell, stored only if
\* non-empty; a row of 12 cells or fewer yields an epic without comments.
C27_CommentsFromCell12 ==
  pc = "parsed" =>
    /\ Len(PlanCells) > 12 => data.epics[1].milestones = PlanCells[13].words
    /\ Len(PlanCells) <= 12 => data.epics[1].milestones = <<>>

C27_Witness ==
  /\ pc = "parsed"
  /\ Len(PlanCells) = 13
  /\ PlanCells[12].words = <<"team">>
  /\ data.epics[1].milestones = <<"late">>

\* ------------------------------------------------------------------ sprint properties

\* A mention of the sprint's own number lies within the 500 characters that
\* follow an arrow marker of the page.
OwnMentionAfterArrow(doc, num) ==
  \E a \in DOMAIN doc, j \in DOMAIN doc :
    /\ doc[a].kind = "arrow"
    /\ j > a
    /\ doc[j].kind = "sprint" /\ doc[j].n = num
    /\ Offset(doc, j) + MentionLen(num) <= Offset(doc, a) + WindowChars

\* C28: a sprint is marked is_current exactly when a mention of its own
\* number lies within the 500 characters that follow an arrow marker.
C28_CurrentIffOwnMentionNearArrow ==
  pc = "parsed" =>
    \A i \in DOMAIN data.sprints :
      data.sprints[i].is_current <=> OwnMentionAfterArrow(storage, data.sprints[i].number)

\* ------------------------------------------------------------------ scheduled sync properties

\* C29: a run of sync_confluence_data that ends in failure leaves the five
\* tables as they were before it: no step of a run changes them unless the
\* run ends with True.
C29_FailedSyncKeepsTables ==
  [][(handler' = "sync_confluence_data" /\ outcome' # "True") => db' = db]_vars

\* The record of the run of sync_confluence_data in hand is 'running' until
\* the function returns, and then 'completed' with True or 'failed' with
\* False.
StatusOfRun ==
  handler = "sync_confluence_data" =>
    /\ sync_id \in DOMAIN status
    /\ status[sync_id].sync_type = "scheduled"
    /\ pc # "done" => (status[sync_id].status = "running" /\ outcome = "running")
    /\ pc = "done" =>
         /\ outcome \in {"True", "False"}
         /\ outcome = "True" <=> status[sync_id].status = "completed"
         /\ outcome = "False" <=> status[sync_id].status = "failed"

\* An invocation of sync_confluence_data adds one record, 'running', before
\* the fetch; no other step of it adds a record; and a record that is
\* 'completed' or 'failed' stays as it is.
StatusStep ==
  /\ (handler' = "sync_confluence_data" /\ pc' = "fetch") =>
       /\ status' = Append(status, [sync_type |-> "scheduled", status |-> "running"])
       /\ sync_id' = Len(status) + 1
       /\ fetched' = "no"
  /\ (handler' = "sync_confluence_data" /\ pc' # "fetch") => Len(status') = Len(status)
  /\ \A id \in DOMAIN status :
       status[id].status \in {"completed", "failed"} =>
         (id \in DOMAIN status' /\ status'[id] = status[id])

\* C30: every invocation of sync_confluence_data creates one sync-status
\* record in state 'running' before the document fetch; when the function
\* returns the record is 'completed' if and only if it returns True and
\* 'failed' if and only if it returns False, never 'running'; and a record in
\* a terminal state never changes.
C30_StatusLifecycle == []StatusOfRun /\ [][StatusStep]_vars

C30_Witness ==
  /\ handler = "sync_confluence_data"
  /\ pc = "done" /\ outcome = "True"
  /\ Len(status) = 2
  /\ status[1] = [sync_type |-> "scheduled", status |-> "failed"]
  /\ status[2] = [sync_type |-> "scheduled", status |-> "completed"]

====
